---------------------------- MODULE Spec2Model ----------------------------
(***************************************************************************)
(* AquaECO dashboard (src/stackai_streamlit.py): the password-gated        *)
(* Streamlit script, its cached data loader and the reference / trend /    *)
(* deviation computation of the metric cards.                              *)
(*                                                                         *)
(* Numbers are exact rationals [num, den] (den > 0): the float arithmetic  *)
(* of the script is modelled without rounding error.  A series holds       *)
(* integers; a mean is the rational sum/count.                             *)
(***************************************************************************)
EXTENDS Integers, Sequences, FiniteSets, TLC

VARIABLES
    frame,          \* locals of the function under study (source names)
    ret,            \* its return value, NoRet before the call
    remote,         \* what each URL serves right now
    cache,          \* st.cache_data entries of load_data, by URL
    fetches,        \* number of pd.read_csv calls made so far, by URL
    session_state,  \* st.session_state of the one browser session
    widgets,        \* values of the un-keyed widgets held by the front end
    view,           \* what the last script run rendered
    strict_config   \* TRUE: the installed Streamlit insists that
                    \* set_page_config is the first command of a run

vars == <<frame, ret, remote, cache, fetches, session_state,
          widgets, view, strict_config>>

appVars == <<remote, cache, fetches, session_state, widgets, view,
             strict_config>>

NoRet == [returned |-> FALSE]

Returned(v) == [returned |-> TRUE, value |-> v]

-----------------------------------------------------------------------------
(* Exact rational arithmetic.                                              *)

Abs(x) == IF x < 0 THEN -x ELSE x

Sign(x) == IF x < 0 THEN -1 ELSE IF x = 0 THEN 0 ELSE 1

R(n) == [num |-> n, den |-> 1]

RAdd(a, b) == [num |-> a.num * b.den + b.num * a.den, den |-> a.den * b.den]

RSub(a, b) == [num |-> a.num * b.den - b.num * a.den, den |-> a.den * b.den]

RMul(a, b) == [num |-> a.num * b.num, den |-> a.den * b.den]

\* a / b for b # 0
RDiv(a, b) == [num |-> a.num * b.den * Sign(b.num), den |-> a.den * Abs(b.num)]

RAbs(a) == [num |-> Abs(a.num), den |-> a.den]

RLess(a, b) == a.num * b.den < b.num * a.den

REq(a, b) == a.num * b.den = b.num * a.den

-----------------------------------------------------------------------------
(* show_metrics: trend icon and metric card.                               *)

RisingGlyph == "chart_increasing"

FallingGlyph == "chart_decreasing"

StableGlyph == "right_arrow"

\* a variant that forgets abs() around the reference
get_trend_icon_signed(latest, ref, tolerance_pct) ==
    LET tol == RMul(ref, RDiv(tolerance_pct, R(100)))
    IN  IF RLess(RAdd(ref, tol), latest) THEN RisingGlyph
        ELSE IF RLess(latest, RSub(ref, tol)) THEN FallingGlyph
        ELSE StableGlyph

\* tolerance_pct is the slider value captured by the closure
get_trend_icon(latest, ref, tolerance_pct) ==
    LET tol == RMul(RAbs(ref), RDiv(tolerance_pct, R(100)))
    IN  IF RLess(RAdd(ref, tol), latest) THEN RisingGlyph
        ELSE IF RLess(latest, RSub(ref, tol)) THEN FallingGlyph
        ELSE StableGlyph

\* a variant that divides by the reference itself
pct_deviation_signed(latest_value, ref_numeric) ==
    IF ~REq(ref_numeric, R(0))
    THEN RMul(RDiv(RSub(latest_value, ref_numeric), ref_numeric), R(100))
    ELSE R(0)

pct_deviation(latest_value, ref_numeric) ==
    IF ~REq(ref_numeric, R(0))
    THEN RMul(RDiv(RSub(latest_value, ref_numeric), RAbs(ref_numeric)), R(100))
    ELSE R(0)

\* f"{x:+.1f}": the sign character and the tenths, rounded half to even
FormatSigned1(x) ==
    LET n == Abs(x.num) * 10
        q == n \div x.den
        r == n % x.den
        tenths == IF 2 * r > x.den THEN q + 1
                  ELSE IF 2 * r = x.den THEN q + (q % 2)
                  ELSE q
    IN  [sign |-> IF x.num < 0 THEN "-" ELSE "+", tenths |-> tenths]

CATEGORY_STYLES ==
    [energy |-> [border |-> "#2e7d32", bg |-> "#e8f5e9", icon |-> "high_voltage"],
     operations |-> [border |-> "#6c757d", bg |-> "#f1f3f5", icon |-> "hammer_and_wrench"],
     water |-> [border |-> "#2196f3", bg |-> "#e3f2fd", icon |-> "droplet"]]

\* the card: glyph in the value line, deviation in the tooltip
render_metric(title, latest_value, ref_numeric, unit, category, tolerance_pct) ==
    LET style == CATEGORY_STYLES[category]
        trend_icon == get_trend_icon(latest_value, ref_numeric, tolerance_pct)
        pct_dev == pct_deviation(latest_value, ref_numeric)
    IN  [title |-> title,
         unit |-> unit,
         style |-> style,
         latest |-> latest_value,
         ref |-> ref_numeric,
         trend_icon |-> trend_icon,
         pct_dev |-> pct_dev,
         deviation |-> FormatSigned1(pct_dev)]

-----------------------------------------------------------------------------
(* pandas Series: values in row order, and an index that is either a       *)
(* DatetimeIndex (timestamps in minutes, ascending) or plain row labels.   *)

MkSeries(values, datetime, index) ==
    [values |-> values, datetime |-> datetime, index |-> index]

\* sum of s[lo..hi] by halving (numpy sums pairwise as well)
RECURSIVE SumRange(_, _, _)
SumRange(s, lo, hi) ==
    IF lo > hi THEN 0
    ELSE IF lo = hi THEN s[lo]
    ELSE LET mid == (lo + hi) \div 2
         IN  SumRange(s, lo, mid) + SumRange(s, mid + 1, hi)

NaN == [num |-> 0, den |-> 0]

\* Series.mean(): sum / count, NaN for no rows
Mean(values) ==
    IF Len(values) = 0 THEN NaN
    ELSE [num |-> SumRange(values, 1, Len(values)), den |-> Len(values)]

\* Series.tail(n): the last n rows, all rows when there are fewer
tail(series, n) ==
    LET len == Len(series.values)
        from == IF n >= len THEN 1 ELSE len - n + 1
    IN  MkSeries(SubSeq(series.values, from, len), series.datetime,
                 SubSeq(series.index, from, len))

\* Index.searchsorted(x, side="right") on an ascending index: the number
\* of entries <= x
searchsorted_right(index, x) ==
    Cardinality({i \in 1..Len(index) : index[i] <= x})

\* Series.last(offset) on an ascending DatetimeIndex:
\*   start_date = index[-1] - offset
\*   start = index.searchsorted(start_date, side="right"); iloc[start:]
last(series, offset) ==
    LET len == Len(series.values)
    IN  IF len = 0 THEN series
        ELSE LET start_date == series.index[len] - offset
                 start == searchsorted_right(series.index, start_date)
             IN  MkSeries(SubSeq(series.values, start + 1, len), series.datetime,
                          SubSeq(series.index, start + 1, len))

\* the options of the selectbox, in order
WindowOptions == <<"Global Average", "Last 1h", "Last 6h", "Last 24h">>

WindowChoices == {WindowOptions[i] : i \in 1..Len(WindowOptions)}

\* a variant whose row-count fallback is one row short
compute_reference_short(series, window_choice) ==
    IF window_choice = "Global Average" THEN Mean(series.values)
    ELSE IF window_choice = "Last 1h"
    THEN IF series.datetime THEN Mean(last(series, 60).values)
         ELSE Mean(tail(series, 11).values)
    ELSE IF window_choice = "Last 6h"
    THEN IF series.datetime THEN Mean(last(series, 360).values)
         ELSE Mean(tail(series, 71).values)
    ELSE IF window_choice = "Last 24h"
    THEN IF series.datetime THEN Mean(last(series, 1440).values)
         ELSE Mean(tail(series, 287).values)
    ELSE Mean(series.values)

\* a variant that ignores the window choice "Global Average"
compute_reference_no_global(series, window_choice) ==
    IF window_choice \in {"Global Average", "Last 1h"}
    THEN IF series.datetime THEN Mean(last(series, 60).values)
         ELSE Mean(tail(series, 12).values)
    ELSE IF window_choice = "Last 6h"
    THEN IF series.datetime THEN Mean(last(series, 360).values)
         ELSE Mean(tail(series, 72).values)
    ELSE IF window_choice = "Last 24h"
    THEN IF series.datetime THEN Mean(last(series, 1440).values)
         ELSE Mean(tail(series, 288).values)
    ELSE Mean(series.values)

\* a variant whose time windows are a minute too long
compute_reference_wide(series, window_choice) ==
    IF window_choice = "Global Average" THEN Mean(series.values)
    ELSE IF window_choice = "Last 1h"
    THEN IF series.datetime THEN Mean(last(series, 61).values)
         ELSE Mean(tail(series, 12).values)
    ELSE IF window_choice = "Last 6h"
    THEN IF series.datetime THEN Mean(last(series, 361).values)
         ELSE Mean(tail(series, 72).values)
    ELSE IF window_choice = "Last 24h"
    THEN IF series.datetime THEN Mean(last(series, 1441).values)
         ELSE Mean(tail(series, 288).values)
    ELSE Mean(series.values)

\* window_choice is the selectbox value captured by the closure; the
\* offsets "1h", "6h", "24h" are 60, 360, 1440 minutes
compute_reference(series, window_choice) ==
    IF window_choice = "Global Average" THEN Mean(series.values)
    ELSE IF window_choice = "Last 1h"
    THEN IF series.datetime THEN Mean(last(series, 60).values)
         ELSE Mean(tail(series, 12).values)
    ELSE IF window_choice = "Last 6h"
    THEN IF series.datetime THEN Mean(last(series, 360).values)
         ELSE Mean(tail(series, 72).values)
    ELSE IF window_choice = "Last 24h"
    THEN IF series.datetime THEN Mean(last(series, 1440).values)
         ELSE Mean(tail(series, 288).values)
    ELSE Mean(series.values)

-----------------------------------------------------------------------------
(* pandas DataFrame, held by column.  A cell of an int64 column is an      *)
(* integer, a cell of a bool column is 0 or 1, a cell of an object column  *)
(* is [txt |-> string], a cell of a datetime64 column is [ts |-> minutes]. *)
(* index holds the row labels; read_csv and sort_values never make it a    *)
(* DatetimeIndex.                                                          *)

None == [none |-> TRUE]

MkFrame(columns, dtype, data, index) ==
    [columns |-> columns, dtype |-> dtype, data |-> data, index |-> index,
     datetime_index |-> FALSE]

ColumnSet(df) == {df.columns[i] : i \in 1..Len(df.columns)}

NRows(df) == Len(df.index)

\* what a URL can serve: a document that parses into typed columns, or a
\* failure of the request or of the CSV parser
Unreachable == [failure |-> "URLError"]

Malformed == [failure |-> "ParserError"]

IsFailure(doc) == "failure" \in DOMAIN doc

\* pd.read_csv on a document that parses: a frame with a RangeIndex
read_csv(doc) ==
    MkFrame(doc.columns, doc.dtype, doc.data, [i \in 1..doc.nrows |-> i - 1])

Two(n) == IF n < 10 THEN "0" \o ToString(n) ELSE ToString(n)

\* the two spellings of a time of day that the parser accepts: "9:05", "09:05"
ClockText(m) == ToString(m \div 60) \o ":" \o Two(m % 60)

PaddedClockText(m) == Two(m \div 60) \o ":" \o Two(m % 60)

\* times of day on a 5-minute raster
ClockMinutes == {5 * k : k \in 0..287}

ClockTexts == [m \in ClockMinutes |-> {ClockText(m), PaddedClockText(m)}]

ParsableTexts == UNION {ClockTexts[m] : m \in ClockMinutes}

Parsable(txt) == txt \in ParsableTexts

ParseTime(txt) == CHOOSE m \in ClockMinutes : txt \in ClockTexts[m]

\* pd.to_datetime on an object column: every cell parsed, or an exception
to_datetime_raises(cells) == \E i \in 1..Len(cells) : ~Parsable(cells[i].txt)

to_datetime(cells) == [i \in 1..Len(cells) |-> [ts |-> ParseTime(cells[i].txt)]]

\* the orders (sequences of row positions) in which keys ascend; rows with
\* equal keys may come out in any order (the default sort is not stable)
RECURSIVE AscendingOrders(_, _)
AscendingOrders(keys, remaining) ==
    IF remaining = {} THEN {<<>>}
    ELSE LET firsts == {i \in remaining : \A j \in remaining : keys[i] <= keys[j]}
         IN  UNION {{<<i>> \o rest : rest \in AscendingOrders(keys, remaining \ {i})}
                    : i \in firsts}

\* the rows of df in the given order
take(df, order) ==
    MkFrame(df.columns, df.dtype,
            [c \in ColumnSet(df) |-> [k \in 1..Len(order) |-> df.data[c][order[k]]]],
            [k \in 1..Len(order) |-> df.index[order[k]]])

\* df.sort_values(col) on a datetime64 column: every frame it may return
sort_values(df, col) ==
    LET keys == [i \in 1..NRows(df) |-> df.data[col][i].ts]
    IN  {take(df, order) : order \in AscendingOrders(keys, 1..NRows(df))}

\* the priority order used by the charts instead
TimeColumnNames_chart == <<"timestamp", "date", "time", "datetime">>

TimeColumnNames == <<"date", "timestamp", "time", "datetime">>

\* for col in [...]: if col in df.columns: ...; break
FirstTimeColumn(df) ==
    LET hits == {i \in 1..Len(TimeColumnNames) : TimeColumnNames[i] \in ColumnSet(df)}
    IN  IF hits = {} THEN None
        ELSE [col |-> TimeColumnNames[CHOOSE i \in hits : \A j \in hits : i <= j]]

ErrorLoading == "st.error: Error loading data"

\* the body of load_data: every (return value, elements shown) it may
\* produce for what the URL serves
load_data_body(doc) ==
    IF IsFailure(doc)
    THEN {[value |-> None, elements |-> <<ErrorLoading>>]}
    ELSE LET df == read_csv(doc)
             hit == FirstTimeColumn(df)
         IN  IF hit = None
             THEN {[value |-> df, elements |-> <<>>]}
             ELSE IF to_datetime_raises(df.data[hit.col])
             THEN {[value |-> None, elements |-> <<ErrorLoading>>]}
             ELSE LET converted ==
                          [df EXCEPT !.data[hit.col] = to_datetime(df.data[hit.col]),
                                     !.dtype[hit.col] = "datetime64"]
                  IN  {[value |-> sorted, elements |-> <<>>]
                       : sorted \in sort_values(converted, hit.col)}

-----------------------------------------------------------------------------
(* st.cache_data around load_data: one entry per URL, kept for the life of *)
(* the process; a hit returns the stored value and replays the elements    *)
(* the body showed.                                                        *)

DATA_SOURCES ==
    [ENERGY |-> "https://raw.githubusercontent.com/ohkelly/aquatic/main/data/energy_data.csv",
     WATER |-> "https://raw.githubusercontent.com/ohkelly/aquatic/main/data/sensor_data.csv"]

Urls == {DATA_SOURCES.ENERGY, DATA_SOURCES.WATER}

NoEntry == [cached |-> FALSE]

\* a variant that stores only the loads that succeeded
load_data_retry(c, f, rem, url) ==
    IF c[url] # NoEntry
    THEN {[value |-> c[url].value, elements |-> c[url].elements, cache |-> c, fetches |-> f]}
    ELSE {[value |-> r.value, elements |-> r.elements,
           cache |-> IF r.value = None THEN c
                     ELSE [c EXCEPT ![url] = [cached |-> TRUE, value |-> r.value,
                                              elements |-> r.elements]],
           fetches |-> [f EXCEPT ![url] = @ + 1]] : r \in load_data_body(rem[url])}

\* load_data(url) with cache c, fetch counts f and remote content rem:
\* every (value, elements, cache, fetches) the call may end with
load_data(c, f, rem, url) ==
    IF c[url] # NoEntry
    THEN {[value |-> c[url].value, elements |-> c[url].elements, cache |-> c, fetches |-> f]}
    ELSE {[value |-> r.value, elements |-> r.elements,
           cache |-> [c EXCEPT ![url] = [cached |-> TRUE, value |-> r.value,
                                         elements |-> r.elements]],
           fetches |-> [f EXCEPT ![url] = @ + 1]] : r \in load_data_body(rem[url])}

-----------------------------------------------------------------------------
(* show_metrics: session defaults, sidebar controls and the three groups   *)
(* of cards.                                                               *)

\* st.sidebar.slider(min_value=0.0, max_value=10.0, step=0.1), in tenths
SliderMinTenths == 0

SliderMaxTenths == 100

SliderValues == {[num |-> t, den |-> 10] : t \in SliderMinTenths..SliderMaxTenths}

DEFAULT_WINDOW == "Last 1h"

DEFAULT_TOLERANCE == [num |-> 10, den |-> 10]

\* lines 378-381: set what is not in st.session_state yet
init_trend_state(ss) ==
    ss @@ ("trend_window" :> DEFAULT_WINDOW) @@ ("trend_tolerance" :> DEFAULT_TOLERANCE)

\* a variant of the reset that forgets the tolerance
reset_to_defaults_window_only(ss) ==
    [ss EXCEPT !["trend_window"] = DEFAULT_WINDOW]

\* lines 388-389: the body of "if st.sidebar.button(...)"
reset_to_defaults(ss) ==
    [ss EXCEPT !["trend_window"] = DEFAULT_WINDOW,
               !["trend_tolerance"] = DEFAULT_TOLERANCE]

Metric(title, column, unit) == [title |-> title, column |-> column, unit |-> unit]

energy_metrics ==
    <<Metric("Solar Power", "solar", "kW"),
      Metric("Wind Power", "wind", "kW"),
      Metric("Biogas Power", "biogas", "kW")>>

ops_metrics ==
    <<Metric("Pumps Usage", "pumps", "kW"),
      Metric("Lighting", "lighting", "kW"),
      Metric("Climate Control", "climate_control", "kW"),
      Metric("Other Ops", "other_operations", "kW")>>

water_metrics ==
    <<Metric("Temperature", "temperature", "C"),
      Metric("Humidity", "humidity", "%"),
      Metric("pH", "pH", ""),
      Metric("ORP", "orp", "mV"),
      Metric("EC", "ec", "mS/cm"),
      Metric("TDS", "tds", "ppm"),
      Metric("Dissolved Oxygen", "do", "mg/L")>>

\* a variant that puts the column on the timestamps of the frame
Column_by_time(df, col) ==
    IF "timestamp" \in ColumnSet(df) /\ df.dtype["timestamp"] = "datetime64"
    THEN MkSeries(df.data[col], TRUE,
                  [i \in 1..NRows(df) |-> df.data["timestamp"][i].ts])
    ELSE MkSeries(df.data[col], df.datetime_index, df.index)

\* df[col]: a column as a Series, on the index of the frame
Column(df, col) == MkSeries(df.data[col], df.datetime_index, df.index)

\* mean(), iloc[-1] and the :.2f format go through for a column of numbers
\* (int64 / float64, and bool which counts as 0 / 1) with at least one row
Renderable(df, col) == NRows(df) > 0 /\ df.dtype[col] \in {"int64", "bool"}

\* one group: the list of (title, df[column], unit) is built first (a
\* missing column raises before any card), then one card per metric until
\* one raises
metric_group(df, metrics, category, window_choice, tolerance_pct) ==
    IF df = None
    \* None["solar"]: 'NoneType' object is not subscriptable
    THEN [cards |-> <<>>, raised |-> "TypeError"]
    ELSE IF \E k \in 1..Len(metrics) : metrics[k].column \notin ColumnSet(df)
    THEN [cards |-> <<>>, raised |-> "KeyError"]
    ELSE LET bad == {k \in 1..Len(metrics) : ~Renderable(df, metrics[k].column)}
             n == IF bad = {} THEN Len(metrics)
                  ELSE (CHOOSE k \in bad : \A j \in bad : k <= j) - 1
             card(k) ==
                 LET series == Column(df, metrics[k].column)
                     ref == compute_reference(series, window_choice)
                     latest == series.values[Len(series.values)]
                 IN  render_metric(metrics[k].title, R(latest), ref, metrics[k].unit,
                                   category, tolerance_pct)
         IN  [cards |-> [k \in 1..n |-> card(k)],
              raised |-> IF bad = {} THEN "" ELSE "TypeError"]

CardElements(cards) == [k \in 1..Len(cards) |-> "card: " \o cards[k].title]

Exception(name) == "exception: " \o name

TrendControls ==
    <<"sidebar: ## Trend Settings", "sidebar: button Reset to Defaults",
      "sidebar: selectbox trend_window", "sidebar: slider trend_tolerance">>

\* the three groups in page order: the page ends at the first exception
metric_groups(g1, g2, g3) ==
    LET o1 == TrendControls \o <<"### Energy Metrics">> \o CardElements(g1.cards)
        o2 == o1 \o <<"### Operations Metrics">> \o CardElements(g2.cards)
        o3 == o2 \o <<"### Water Quality Metrics">> \o CardElements(g3.cards)
    IN  IF g1.raised # ""
        THEN [out |-> o1 \o <<Exception(g1.raised)>>, cards |-> g1.cards,
              raised |-> TRUE]
        ELSE IF g2.raised # ""
        THEN [out |-> o2 \o <<Exception(g2.raised)>>,
              cards |-> g1.cards \o g2.cards, raised |-> TRUE]
        ELSE IF g3.raised # ""
        THEN [out |-> o3 \o <<Exception(g3.raised)>>,
              cards |-> g1.cards \o g2.cards \o g3.cards, raised |-> TRUE]
        ELSE [out |-> o3, cards |-> g1.cards \o g2.cards \o g3.cards,
              raised |-> FALSE]

\* show_metrics(energy_df, water_df) with session state ss; reset tells
\* whether the button was pressed for this run
show_metrics(energy_df, water_df, ss, reset) ==
    LET ss1 == init_trend_state(ss)
        ss2 == IF reset THEN reset_to_defaults(ss1) ELSE ss1
        window_choice == ss2["trend_window"]
        tolerance_pct == ss2["trend_tolerance"]
    IN  [ss |-> ss2, window_choice |-> window_choice,
         tolerance_pct |-> tolerance_pct, reset |-> reset]
        @@ metric_groups(
             metric_group(energy_df, energy_metrics, "energy", window_choice, tolerance_pct),
             metric_group(energy_df, ops_metrics, "operations", window_choice, tolerance_pct),
             metric_group(water_df, water_metrics, "water", window_choice, tolerance_pct))

-----------------------------------------------------------------------------
(* Page layouts.  A result of a layout function is a record: the cache and *)
(* fetch counts it leaves, the session state, and what it rendered.        *)

NoTrend == [used |-> FALSE]

NoHeatmap == [shown |-> FALSE]

NoDataWarning == "st.warning: No data available - please check your data sources"

HeatmapChart == "chart: Water Quality Parameter Correlations"

\* a variant that gives up only when both datasets are missing
no_data_both(energy_df, water_df) == energy_df = None /\ water_df = None

\* line 525
no_data(energy_df, water_df) == energy_df = None \/ water_df = None

\* select_dtypes(include=["float64", "int64"]).columns, in column order
numeric_cols(df) ==
    LET keep == {i \in 1..Len(df.columns) : df.dtype[df.columns[i]] = "int64"}
        nth(k) == CHOOSE i \in keep : Cardinality({j \in keep : j < i}) = k - 1
    IN  [k \in 1..Cardinality(keep) |-> df.columns[nth(k)]]

EnergySection ==
    <<"---", "## Energy Performance Trend", "chart: Energy Generation Over Time",
      "chart: Energy Source Composition", "dataframe: energy">>

\* lines 546-649, after show_metrics returned: the energy tabs, then the
\* water tabs (melt needs a "timestamp" column to name as id_vars)
dashboard_sections(energy_df, water_df) ==
    LET o1 == EnergySection \o <<"---", "## Water Quality Performance Trend">>
    IN  IF "timestamp" \notin ColumnSet(water_df)
        THEN [out |-> o1 \o <<Exception("KeyError")>>, heatmap |-> NoHeatmap]
        ELSE LET o2 == o1 \o <<"chart: Temperature and Humidity Over Time">>
             IN  IF Len(water_df.columns) > 2
                 THEN [out |-> o2 \o <<HeatmapChart, "dataframe: water">>,
                       heatmap |-> [shown |-> TRUE, columns |-> numeric_cols(water_df)]]
                 ELSE [out |-> o2 \o <<"dataframe: water">>, heatmap |-> NoHeatmap]

\* render_dashboard() from line 529 on, m being what show_metrics left
dashboard_page(base, loaded, m, energy_df, water_df) ==
    LET head == loaded \o <<"header: logo", "title: Performance Dashboard",
                            "## System Metrics Overview">> \o m.out
        trend == [used |-> TRUE, window_choice |-> m.window_choice,
                  tolerance_pct |-> m.tolerance_pct, reset |-> m.reset]
    IN  IF m.raised
        THEN base @@ [ss |-> m.ss, out |-> head, cards |-> m.cards,
                      trend |-> trend, heatmap |-> NoHeatmap]
        ELSE LET d == dashboard_sections(energy_df, water_df)
             IN  base @@ [ss |-> m.ss, out |-> head \o d.out, cards |-> m.cards,
                          trend |-> trend, heatmap |-> d.heatmap]

\* render_dashboard(), given the two load results e and w
dashboard_of(e, w, ss, reset) ==
    LET loaded == e.elements \o w.elements
        base == [cache |-> w.cache, fetches |-> w.fetches,
                 loads |-> [ENERGY |-> e.value, WATER |-> w.value]]
    IN  IF no_data(e.value, w.value)
        THEN base @@ [ss |-> ss, out |-> loaded \o <<NoDataWarning>>, cards |-> <<>>,
                      trend |-> NoTrend, heatmap |-> NoHeatmap]
        ELSE dashboard_page(base, loaded, show_metrics(e.value, w.value, ss, reset),
                            e.value, w.value)

\* render_dashboard(): both loads are made before either result is looked at
render_dashboard(c, f, rem, ss, reset) ==
    UNION {{dashboard_of(e, w, ss, reset)
            : w \in load_data(e.cache, e.fetches, rem, DATA_SOURCES.WATER)}
           : e \in load_data(c, f, rem, DATA_SOURCES.ENERGY)}

\* what load_data returned to a run, per dataset; NotCalled for a run that
\* did not get to render_dashboard
NotCalled == [called |-> FALSE]

NotLoaded == [ENERGY |-> NotCalled, WATER |-> NotCalled]

render_ai_assistant(c, f, ss) ==
    {[cache |-> c, fetches |-> f, loads |-> NotLoaded, ss |-> ss,
      out |-> <<"header: logo", "iframe: stack-ai chat assistant", "Assistant Tips">>,
      cards |-> <<>>, trend |-> NoTrend, heatmap |-> NoHeatmap]}

-----------------------------------------------------------------------------
(* main() and the script around it.  One run of the script is one step:    *)
(* the front end sends the widget values, the script runs top to bottom,   *)
(* and at its end Streamlit drops the state of every widget the run did    *)
(* not render (the keys trend_window / trend_tolerance included).          *)

PASSWORD == "AquaponicsAssociation@2025"

\* dates in days from today: value=today minus one year, value=today
date_defaults == [start_date |-> -365, end_date |-> 0]

WidgetValue(w, name, default) == IF name \in DOMAIN w THEN w[name] ELSE default

Sidebar == <<"style: custom css", "sidebar: logo", "sidebar: title Navigation",
             "sidebar: radio Navigation">>

DateWidgets == <<"sidebar: ### Date Range Selector", "sidebar: date_input Start date",
                 "sidebar: date_input End date">>

\* a variant that shows the chosen range above the page
main_dated(c, f, rem, ss, w, reset, strict) ==
    IF strict
    THEN {[cache |-> c, fetches |-> f, loads |-> NotLoaded, ss |-> ss,
           out |-> <<Exception("StreamlitAPIException")>>, cards |-> <<>>,
           trend |-> NoTrend, heatmap |-> NoHeatmap, widgets |-> <<>>, page |-> "none"]}
    ELSE LET option == WidgetValue(w, "option", "Dashboard")
         IN  IF option = "Dashboard"
             THEN LET start_date == WidgetValue(w, "start_date", date_defaults.start_date)
                      end_date == WidgetValue(w, "end_date", date_defaults.end_date)
                  IN  {[r EXCEPT !.out = Sidebar \o DateWidgets
                                          \o <<"caption: from " \o ToString(start_date)>> \o @]
                         @@ [widgets |-> [option |-> option, start_date |-> start_date,
                                          end_date |-> end_date],
                             page |-> option]
                       : r \in render_dashboard(c, f, rem, ss, reset)}
             ELSE {[r EXCEPT !.out = Sidebar \o @]
                     @@ [widgets |-> [option |-> option], page |-> option]
                   : r \in render_ai_assistant(c, f, ss)}

\* main(): w holds the widget values of the front end
main(c, f, rem, ss, w, reset, strict) ==
    IF strict
    THEN {[cache |-> c, fetches |-> f, loads |-> NotLoaded, ss |-> ss,
           out |-> <<Exception("StreamlitAPIException")>>, cards |-> <<>>,
           trend |-> NoTrend, heatmap |-> NoHeatmap, widgets |-> <<>>, page |-> "none"]}
    ELSE LET option == WidgetValue(w, "option", "Dashboard")
         IN  IF option = "Dashboard"
             THEN LET start_date == WidgetValue(w, "start_date", date_defaults.start_date)
                      end_date == WidgetValue(w, "end_date", date_defaults.end_date)
                  IN  {[r EXCEPT !.out = Sidebar \o DateWidgets \o @]
                         @@ [widgets |-> [option |-> option, start_date |-> start_date,
                                          end_date |-> end_date],
                             page |-> option]
                       : r \in render_dashboard(c, f, rem, ss, reset)}
             ELSE {[r EXCEPT !.out = Sidebar \o @]
                     @@ [widgets |-> [option |-> option], page |-> option]
                   : r \in render_ai_assistant(c, f, ss)}

TrendKeys == {"trend_window", "trend_tolerance"}

Without(fn, keys) == [k \in (DOMAIN fn) \ keys |-> fn[k]]

MkView(r) ==
    [page |-> r.page, out |-> r.out, cards |-> r.cards, trend |-> r.trend,
     heatmap |-> r.heatmap, loads |-> r.loads]

\* the end of a run: state of widgets that were not rendered is dropped
Finish(r) ==
    [ss |-> IF r.trend.used THEN r.ss ELSE Without(r.ss, TrendKeys),
     widgets |-> r.widgets, cache |-> r.cache, fetches |-> r.fetches,
     view |-> MkView(r)]

Gate == <<"title: Private App - Authentication Required", "text_input: password">>

IncorrectPassword == "st.error: Incorrect password. Please try again."

\* a variant of the gate that lets any non-empty entry through
Script_any_entry(ss0, w, reset, c, f, rem, strict) ==
    LET ss1 == ss0 @@ ("authenticated" :> FALSE)
        password == WidgetValue(w, "password", "")
        stopped(out) ==
            Finish([cache |-> c, fetches |-> f, loads |-> NotLoaded, ss |-> ss1,
                    out |-> out, cards |-> <<>>, trend |-> NoTrend,
                    heatmap |-> NoHeatmap, widgets |-> [password |-> password],
                    page |-> "gate"])
        app(ss) ==
            {Finish([r EXCEPT !.out = <<"title: My Private App">> \o @])
             : r \in main(c, f, rem, ss, w, reset, strict)}
    IN  IF ss1["authenticated"] \/ password # ""
        THEN app([ss1 EXCEPT !["authenticated"] = TRUE])
        ELSE {stopped(Gate)}

\* lines 15-33 and 748-749: the password gate, then main()
Script(ss0, w, reset, c, f, rem, strict) ==
    LET ss1 == ss0 @@ ("authenticated" :> FALSE)
        password == WidgetValue(w, "password", "")
        stopped(out) ==
            Finish([cache |-> c, fetches |-> f, loads |-> NotLoaded, ss |-> ss1,
                    out |-> out, cards |-> <<>>, trend |-> NoTrend,
                    heatmap |-> NoHeatmap, widgets |-> [password |-> password],
                    page |-> "gate"])
        app(ss) ==
            {Finish([r EXCEPT !.out = <<"title: My Private App">> \o @])
             : r \in main(c, f, rem, ss, w, reset, strict)}
    \* the gate is passed with the flag set, or by the right password:
    \* st.rerun() then starts the run over with the flag set
    IN  IF ss1["authenticated"] \/ password = PASSWORD
        THEN app([ss1 EXCEPT !["authenticated"] = TRUE])
        ELSE IF password # ""
        THEN {stopped(Gate \o <<IncorrectPassword>>)}
        ELSE {stopped(Gate)}

-----------------------------------------------------------------------------
(* Spec: the session of one user against the two data sources.             *)

TableRows == 3

LongRows == 13

EnergyChannels == <<"solar", "wind", "biogas", "pumps", "lighting",
                    "climate_control", "other_operations">>

WaterChannels == <<"temperature", "humidity", "pH", "orp", "ec", "tds", "do">>

\* a reading for channel number p in row i of a document
Reading(p, i) == ((7 * p + 3 * i * i) % 11) - 2

\* a document: a time-like column named tcol ("" for none) whose cells are
\* the texts times, the channels as int64 columns, and the flags as bool
TableDoc(tcol, times, channels, flags, n) ==
    LET head == IF tcol = "" THEN <<>> ELSE <<tcol>>
        columns == head \o channels \o flags
        pos(c) == CHOOSE k \in 1..Len(columns) : columns[k] = c
        isFlag(c) == \E k \in 1..Len(flags) : flags[k] = c
    IN  [columns |-> columns,
         dtype |-> [c \in {columns[k] : k \in 1..Len(columns)} |->
                       IF c = tcol THEN "object"
                       ELSE IF isFlag(c) THEN "bool" ELSE "int64"],
         data |-> [c \in {columns[k] : k \in 1..Len(columns)} |->
                      IF c = tcol THEN [i \in 1..n |-> [txt |-> times[i]]]
                      ELSE IF isFlag(c) THEN [i \in 1..n |-> (pos(c) + i) % 2]
                      ELSE [i \in 1..n |-> Reading(pos(c), i)]],
         nrows |-> n]

\* times of day that are not in row order: 10:00, 9:55, 9:50, ...
Descending(n) == [i \in 1..n |-> ClockText(605 - 5 * i)]

\* one reading an hour, not in row order either: ..., 2:00, 1:00, 0:00
Hourly(n) == [i \in 1..n |-> ClockText(60 * (n - i))]

BadTimes(n) == [i \in 1..n |-> IF i = n THEN "not a time" ELSE ClockText(540 + 5 * i)]

EnergyDocs ==
    {TableDoc("timestamp", Descending(TableRows), EnergyChannels, <<>>, TableRows),
     TableDoc("timestamp", Hourly(LongRows), EnergyChannels, <<>>, LongRows),
     TableDoc("", <<>>, EnergyChannels, <<>>, TableRows),
     Unreachable}

WaterDocs ==
    {TableDoc("timestamp", Descending(TableRows), WaterChannels, <<>>, TableRows),
     TableDoc("date", Descending(TableRows), WaterChannels, <<>>, TableRows),
     TableDoc("timestamp", Descending(TableRows), <<"temperature", "humidity">>, <<>>,
              TableRows),
     TableDoc("timestamp", Descending(TableRows), <<"temperature", "humidity">>,
              <<"pH", "orp", "ec", "tds", "do">>, TableRows),
     TableDoc("timestamp", BadTimes(TableRows), WaterChannels, <<>>, TableRows),
     Malformed}

\* what the file behind a URL may be replaced with later on: a good
\* document, or nothing that loads
Revisions(url) ==
    IF url = DATA_SOURCES.ENERGY
    THEN {TableDoc("timestamp", Hourly(LongRows), EnergyChannels, <<>>, LongRows),
          Unreachable}
    ELSE {TableDoc("timestamp", Descending(TableRows), WaterChannels, <<>>, TableRows),
          Malformed}

PasswordsTried == {"", PASSWORD, "aquaponicsassociation@2025", "letmein"}

DateChoices == {-30}

\* slider positions the user moves to
TolerancesTried == {v \in SliderValues : v.num \in {0, 10, 100}}

\* a new session connects: the first run of the script, nothing cached
InitApp(rem, strict) ==
    /\ remote = rem
    /\ strict_config = strict
    /\ \E r \in Script(<<>>, <<>>, FALSE, [u \in Urls |-> NoEntry], [u \in Urls |-> 0],
                       rem, strict) :
          /\ session_state = r.ss
          /\ widgets = r.widgets
          /\ cache = r.cache
          /\ fetches = r.fetches
          /\ view = r.view

Init ==
    /\ frame = [fn |-> "script"]
    /\ ret = NoRet
    /\ \E e \in EnergyDocs, w \in WaterDocs, strict \in BOOLEAN :
          InitApp((DATA_SOURCES.ENERGY :> e) @@ (DATA_SOURCES.WATER :> w), strict)

\* one run of the script with session state ss and widget values w
Run(ss, w, reset) ==
    /\ \E r \in Script(ss, w, reset, cache, fetches, remote, strict_config) :
          /\ session_state' = r.ss
          /\ widgets' = r.widgets
          /\ cache' = r.cache
          /\ fetches' = r.fetches
          /\ view' = r.view
    /\ UNCHANGED <<frame, ret, remote, strict_config>>

Rerun == Run(session_state, widgets, FALSE)

EnterPassword ==
    /\ "password" \in DOMAIN widgets
    /\ \E p \in PasswordsTried :
          Run(session_state, [widgets EXCEPT !["password"] = p], FALSE)

Navigate ==
    /\ "option" \in DOMAIN widgets
    /\ \E o \in {"Dashboard", "AI Assistant"} :
          Run(session_state, [widgets EXCEPT !["option"] = o], FALSE)

PickStartDate ==
    /\ "start_date" \in DOMAIN widgets
    /\ \E d \in DateChoices :
          Run(session_state, [widgets EXCEPT !["start_date"] = d], FALSE)

PickEndDate ==
    /\ "end_date" \in DOMAIN widgets
    /\ \E d \in DateChoices :
          Run(session_state, [widgets EXCEPT !["end_date"] = d], FALSE)

SelectWindow ==
    /\ "trend_window" \in DOMAIN session_state
    /\ \E choice \in WindowChoices :
          Run([session_state EXCEPT !["trend_window"] = choice], widgets, FALSE)

SlideTolerance ==
    /\ "trend_tolerance" \in DOMAIN session_state
    /\ \E t \in TolerancesTried :
          Run([session_state EXCEPT !["trend_tolerance"] = t], widgets, FALSE)

PressReset ==
    /\ "trend_window" \in DOMAIN session_state
    /\ Run(session_state, widgets, TRUE)

\* the file behind a URL is replaced on the server
RemoteChange ==
    /\ \E u \in Urls : \E doc \in Revisions(u) :
          /\ doc # remote[u]
          /\ remote' = [remote EXCEPT ![u] = doc]
    /\ UNCHANGED <<frame, ret, cache, fetches, session_state, widgets, view, strict_config>>

Next ==
    \/ Rerun
    \/ EnterPassword
    \/ Navigate
    \/ PickStartDate
    \/ PickEndDate
    \/ SelectWindow
    \/ SlideTolerance
    \/ PressReset
    \/ RemoteChange

Spec == Init /\ [][Next]_vars

\* the application as the functions studied on their own leave it
AppAtRest ==
    InitApp((DATA_SOURCES.ENERGY :> Unreachable) @@ (DATA_SOURCES.WATER :> Malformed), FALSE)

-----------------------------------------------------------------------------
(* Inputs of the functions studied on their own.                           *)

MaxNum == 11

\* slider positions tried: both ends, one step, the default, some others
ToleranceGrid == {v \in SliderValues : v.num \in {0, 1, 10, 25, 50, 100}}

LatestGrid == {[num |-> n, den |-> d] : n \in -MaxNum..MaxNum, d \in {1, 10}}

RefGrid == {[num |-> n, den |-> d] : n \in -MaxNum..MaxNum, d \in {1, 3}}

-----------------------------------------------------------------------------
(* SpecTrend: render_metric (and get_trend_icon inside it) on its own.     *)

InitTrend ==
    /\ \E l \in LatestGrid, r \in RefGrid, t \in ToleranceGrid :
          frame = [fn |-> "render_metric", title |-> "pH", latest_value |-> l,
                   ref_numeric |-> r, unit |-> "", category |-> "water",
                   tolerance_pct |-> t]
    /\ ret = NoRet
    /\ AppAtRest

CallRenderMetric ==
    /\ frame.fn = "render_metric"
    /\ ret = NoRet
    /\ ret' = Returned(render_metric(frame.title, frame.latest_value,
                                     frame.ref_numeric, frame.unit,
                                     frame.category, frame.tolerance_pct))
    /\ UNCHANGED <<frame, appVars>>

NextTrend == CallRenderMetric

SpecTrend == InitTrend /\ [][NextTrend]_vars

\* latest > ref + |ref|*t/100, cleared of denominators
AboveBand(l, r, t) ==
    l.num * r.den * t.den * 100 > r.num * l.den * t.den * 100 + Abs(r.num) * t.num * l.den

\* latest < ref - |ref|*t/100, cleared of denominators
BelowBand(l, r, t) ==
    l.num * r.den * t.den * 100 < r.num * l.den * t.den * 100 - Abs(r.num) * t.num * l.den

TrendReturned == frame.fn = "render_metric" /\ ret.returned

(* C1: for every latest value, reference and tolerance percentage in 0..10 *)
(* the icon is exactly one of three glyphs: rising iff                     *)
(* latest > ref + |ref|*t/100, falling iff latest < ref - |ref|*t/100,     *)
(* stable otherwise; latest = ref is always stable, and with ref = 0 the   *)
(* icon is stable only for latest = 0.                                     *)
C1_TrendIcon ==
    TrendReturned =>
        LET l == frame.latest_value
            r == frame.ref_numeric
            t == frame.tolerance_pct
            icon == ret.value.trend_icon
        IN  /\ icon \in {RisingGlyph, FallingGlyph, StableGlyph}
            /\ icon = RisingGlyph <=> AboveBand(l, r, t)
            /\ icon = FallingGlyph <=> BelowBand(l, r, t)
            /\ icon = StableGlyph <=> (~AboveBand(l, r, t) /\ ~BelowBand(l, r, t))
            /\ l.num * r.den = r.num * l.den => icon = StableGlyph
            /\ r.num = 0 => (icon = StableGlyph <=> l.num = 0)

\* a negative reference with a positive tolerance, latest exactly on the
\* lower edge of the band (stable)
C1_Witness ==
    /\ TrendReturned
    /\ frame.ref_numeric.num < 0
    /\ frame.tolerance_pct.num > 0
    /\ REq(frame.latest_value,
           RSub(frame.ref_numeric,
                RMul(RAbs(frame.ref_numeric), RDiv(frame.tolerance_pct, R(100)))))
    /\ ret.value.trend_icon = StableGlyph

(* C2: the deviation of a card is 0.0 whenever the reference is 0, and     *)
(* (latest - ref) / |ref| * 100 for every nonzero reference; its sign,     *)
(* also as printed in the tooltip, is the sign of latest - ref, for a      *)
(* negative reference too.                                                 *)
C2_Deviation ==
    TrendReturned =>
        LET l == frame.latest_value
            r == frame.ref_numeric
            d == ret.value.pct_dev
            diff == l.num * r.den - r.num * l.den  \* sign of latest - ref
        IN  /\ r.num = 0 => (d.num = 0 /\ ret.value.deviation = [sign |-> "+", tenths |-> 0])
            /\ r.num # 0 =>
                  \* d * |ref| = (latest - ref) * 100
                  /\ d.num * Abs(r.num) * l.den = diff * 100 * d.den
                  /\ Sign(d.num) = Sign(diff)
                  /\ ret.value.deviation.sign = (IF diff < 0 THEN "-" ELSE "+")

\* a negative reference below the latest value: a positive deviation
C2_Witness ==
    /\ TrendReturned
    /\ frame.ref_numeric.num < 0
    /\ RLess(frame.ref_numeric, frame.latest_value)
    /\ ret.value.pct_dev.num > 0
    /\ ret.value.deviation.sign = "+"
    /\ ret.value.deviation.tenths > 0

-----------------------------------------------------------------------------
(* SpecRef: compute_reference on its own.                                  *)

MaxSeriesLen == 3

MaxLen == 290

ValueGrid == {-1, 2}

\* minutes; 1440 - 1440, 1440 - 360 and 1440 - 60 are on the grid, and so
\* is the minute after each
TimeGrid == {0, 1, 1080, 1081, 1380, 1381, 1440}

LenGrid == {11, 12, 13, 71, 72, 73, 287, 288, 289, MaxLen}

\* position of the odd value, counted from the last row
EndOffsets == {1, 12, 13, 72, 73, 288, 289}

RowLabels(n) == [i \in 1..n |-> i - 1]

AscendingIndexes(n) ==
    {ix \in [1..n -> TimeGrid] : \A i \in 1..(n - 1) : ix[i] <= ix[i + 1]}

TimeIndexedInputs ==
    UNION {{MkSeries(v, TRUE, ix) : v \in [1..n -> ValueGrid], ix \in AscendingIndexes(n)}
           : n \in 1..MaxSeriesLen}

ShortPlainInputs ==
    UNION {{MkSeries(v, FALSE, RowLabels(n)) : v \in [1..n -> ValueGrid]}
           : n \in 1..MaxSeriesLen}

\* len rows equal to b, except a in the row that is e-th from the end
Spike(len, e, a, b) ==
    MkSeries([i \in 1..len |-> IF i = len - e + 1 THEN a ELSE b], FALSE, RowLabels(len))

LongPlainInputs ==
    {Spike(len, e, a, b) : len \in LenGrid, e \in EndOffsets, a \in {-3, 5}, b \in {0, 1}}

SeriesInputs == TimeIndexedInputs \cup ShortPlainInputs \cup LongPlainInputs

InitRef ==
    /\ \E s \in SeriesInputs, w \in WindowChoices,
          t \in {v \in ToleranceGrid : v.num \in {0, 10}} :
          frame = [fn |-> "compute_reference", series |-> s,
                   window_choice |-> w, tolerance_pct |-> t]
    /\ ret = NoRet
    /\ AppAtRest

CallComputeReference ==
    /\ frame.fn = "compute_reference"
    /\ ret = NoRet
    /\ ret' = Returned(compute_reference(frame.series, frame.window_choice))
    /\ UNCHANGED <<frame, appVars>>

NextRef == CallComputeReference

SpecRef == InitRef /\ [][NextRef]_vars

RefReturned == frame.fn = "compute_reference" /\ ret.returned

RECURSIVE SumOver(_, _)
SumOver(values, I) ==
    IF I = {} THEN 0
    ELSE LET i == CHOOSE j \in I : TRUE
         IN  values[i] + SumOver(values, I \ {i})

\* ref is the mean of the rows I of values
IsMeanOf(ref, values, I) ==
    /\ I # {}
    /\ ref.den > 0
    /\ ref.num * Cardinality(I) = SumOver(values, I) * ref.den

\* ref is the mean of the rows from..Len(values)
IsMeanFrom(ref, values, from) ==
    /\ from <= Len(values)
    /\ ref.den > 0
    /\ ref.num * (Len(values) - from + 1) = SumRange(values, from, Len(values)) * ref.den

WindowMinutes(w) ==
    CASE w = "Last 1h" -> 60 [] w = "Last 6h" -> 360 [] w = "Last 24h" -> 1440

WindowRows(w) ==
    CASE w = "Last 1h" -> 12 [] w = "Last 6h" -> 72 [] w = "Last 24h" -> 288

(* C3: for every non-empty series and every tolerance, "Global Average"    *)
(* yields the arithmetic mean of all values, whether or not the series is  *)
(* time-indexed.                                                           *)
C3_GlobalAverage ==
    (RefReturned /\ frame.window_choice = "Global Average") =>
        IsMeanFrom(ret.value, frame.series.values, 1)

\* a time-indexed series whose last hour holds only its last row, a value
\* that differs from the mean of all rows, at a nonzero tolerance
C3_Witness ==
    /\ RefReturned
    /\ frame.window_choice = "Global Average"
    /\ frame.series.datetime
    /\ frame.tolerance_pct.num > 0
    /\ LET v == frame.series.values
           ix == frame.series.index
       IN  /\ Len(v) >= 2
           /\ ix[Len(v) - 1] + 60 < ix[Len(v)]
           /\ ~REq(ret.value, R(v[Len(v)]))

\* rows of a time-indexed series later than (last timestamp - window)
RowsAfter(series, minutes) ==
    LET n == Len(series.index)
    IN  {i \in 1..n : series.index[i] > series.index[n] - minutes}

\* rows of a time-indexed series not earlier than (last timestamp - window)
RowsWithin(series, minutes) ==
    LET n == Len(series.index)
    IN  {i \in 1..n : series.index[i] >= series.index[n] - minutes}

TimeWindowCase ==
    /\ RefReturned
    /\ frame.series.datetime
    /\ frame.window_choice \in {"Last 1h", "Last 6h", "Last 24h"}

C5_RowWindow ==
    (/\ RefReturned
     /\ ~frame.series.datetime
     /\ frame.window_choice \in {"Last 1h", "Last 6h", "Last 24h"}) =>
        LET v == frame.series.values
            k == WindowRows(frame.window_choice)
        IN  IF Len(v) < k THEN IsMeanFrom(ret.value, v, 1)
            ELSE IsMeanFrom(ret.value, v, Len(v) - k + 1)

\* 289 rows or more, the odd value in the row just before the last 288:
\* "Last 24h" does not see it, the mean of all rows does
C5_Witness ==
    /\ RefReturned
    /\ ~frame.series.datetime
    /\ frame.window_choice = "Last 24h"
    /\ LET v == frame.series.values
       IN  /\ Len(v) > 288
           /\ v[Len(v) - 288] # v[Len(v)]
           /\ REq(ret.value, R(v[Len(v)]))
           /\ ~REq(Mean(v), ret.value)

-----------------------------------------------------------------------------
(* SpecLoad: the body of load_data on its own.                             *)

MaxRows == 2

\* the header order of the documents tried differs from the priority order
HeaderOrder == <<"datetime", "time", "timestamp", "Date", "date", "value">>

TimeLikeNames == {"date", "timestamp", "time", "datetime", "Date"}

RawTimes == {"9:00", "09:00", "10:00", "not a time"}

Header(names) ==
    LET keep == {i \in 1..Len(HeaderOrder) : HeaderOrder[i] \in names}
        nth(k) == CHOOSE i \in keep : Cardinality({j \in keep : j < i}) = k - 1
    IN  [k \in 1..Cardinality(keep) |-> HeaderOrder[nth(k)]]

\* a document with the time-like columns T (their cells given by texts)
\* and the int64 column "value"
Doc(T, n, texts) ==
    [columns |-> Header(T \cup {"value"}),
     dtype |-> [c \in T \cup {"value"} |-> IF c = "value" THEN "int64" ELSE "object"],
     data |-> [c \in T \cup {"value"} |->
                  IF c = "value" THEN [i \in 1..n |-> 10 * i]
                  ELSE [i \in 1..n |-> [txt |-> texts[c][i]]]],
     nrows |-> n]

InitLoad ==
    /\ \/ \E doc \in {Unreachable, Malformed} : frame = [fn |-> "load_data", doc |-> doc]
       \/ \E T \in {S \in SUBSET TimeLikeNames : Cardinality(S) <= 2}, n \in 1..MaxRows :
             \E texts \in [T -> [1..n -> RawTimes]] :
                frame = [fn |-> "load_data", doc |-> Doc(T, n, texts)]
    /\ ret = NoRet
    /\ AppAtRest

CallLoadData ==
    /\ frame.fn = "load_data"
    /\ ret = NoRet
    /\ \E r \in load_data_body(frame.doc) : ret' = Returned(r)
    /\ UNCHANGED <<frame, appVars>>

NextLoad == CallLoadData

SpecLoad == InitLoad /\ [][NextLoad]_vars

LoadReturned == frame.fn = "load_data" /\ ret.returned

\* the first of date, timestamp, time, datetime among the names, if any
Chosen(names) ==
    IF "date" \in names THEN "date"
    ELSE IF "timestamp" \in names THEN "timestamp"
    ELSE IF "time" \in names THEN "time"
    ELSE IF "datetime" \in names THEN "datetime"
    ELSE "(none)"

\* row k of the result is row index[k] + 1 of the document
SourceRow(df, k) == df.index[k] + 1

(* C6: load_data takes as time column the first of date, timestamp, time,  *)
(* datetime present in the table (exact match), converts that column only  *)
(* and returns the rows in ascending order of it; every other column, a    *)
(* timestamp-like one too, keeps its cells; with none of the four names    *)
(* the rows come back in their original order.                             *)
C6_LoadData ==
    (LoadReturned /\ ~IsFailure(frame.doc)) =>
        LET doc == frame.doc
            names == {doc.columns[i] : i \in 1..Len(doc.columns)}
            c == Chosen(names)
            df == ret.value.value
        IN  IF c = "(none)"
            THEN /\ df # None
                 /\ df.columns = doc.columns
                 /\ df.index = [i \in 1..doc.nrows |-> i - 1]
                 /\ \A k \in names : df.data[k] = doc.data[k] /\ df.dtype[k] = doc.dtype[k]
            ELSE (\A i \in 1..doc.nrows : Parsable(doc.data[c][i].txt)) =>
                 /\ df # None
                 /\ df.columns = doc.columns
                 /\ Len(df.index) = doc.nrows
                 /\ {df.index[k] : k \in 1..doc.nrows} = 0..(doc.nrows - 1)
                 /\ df.dtype[c] = "datetime64"
                 /\ \A k \in 1..doc.nrows :
                       df.data[c][k] = [ts |-> ParseTime(doc.data[c][SourceRow(df, k)].txt)]
                 /\ \A k \in 1..(doc.nrows - 1) : df.data[c][k].ts <= df.data[c][k + 1].ts
                 /\ \A o \in names \ {c} :
                       /\ df.dtype[o] = doc.dtype[o]
                       /\ \A k \in 1..doc.nrows : df.data[o][k] = doc.data[o][SourceRow(df, k)]

\* "timestamp" and "date" both present, "date" wins and reorders the rows,
\* while the "timestamp" column holds a text that is no time and stays text
C6_Witness ==
    /\ LoadReturned
    /\ ~IsFailure(frame.doc)
    /\ {"date", "timestamp"} \subseteq DOMAIN frame.doc.data
    /\ ret.value.value # None
    /\ ret.value.value.index = <<1, 0>>
    /\ ret.value.value.dtype["date"] = "datetime64"
    /\ ret.value.value.data["timestamp"][1] = [txt |-> "not a time"]


-----------------------------------------------------------------------------
(* Spec: properties of the session.                                        *)

Datasets == DOMAIN DATA_SOURCES

\* the two load results a dashboard run worked with
DashboardRun(v) == v.page = "Dashboard"

(* C7: once load_data has been called for a URL, no later run fetches that *)
(* URL again and every later call returns what the first call returned,    *)
(* whatever the server holds by then and also when the first call failed;  *)
(* the first call fetches once and its result is the one kept.             *)
C7_CachedPerUrl ==
    [][\A k \in Datasets :
          LET u == DATA_SOURCES[k]
          IN  /\ fetches[u] >= 1 =>
                    /\ cache[u] # NoEntry
                    /\ fetches'[u] = fetches[u]
                    /\ cache'[u] = cache[u]
                    /\ DashboardRun(view') => view'.loads[k] = cache[u].value
              /\ fetches[u] = 0 /\ DashboardRun(view') =>
                    /\ fetches'[u] = 1
                    /\ cache'[u] # NoEntry
                    /\ view'.loads[k] = cache'[u].value]_vars

\* the first call for the water URL failed, the server holds a good file
\* since, and the dashboard still works with the absent result
C7_Witness ==
    LET u == DATA_SOURCES.WATER
    IN  /\ fetches[u] = 1
        /\ cache[u] # NoEntry
        /\ cache[u].value = None
        /\ ~IsFailure(remote[u])
        /\ \A r \in load_data_body(remote[u]) : r.value # None
        /\ DashboardRun(view)
        /\ view.loads.WATER = None

\* a document that does not load: the request or the CSV parser fails, or a
\* cell of the time column is not a time
DocFails(doc) ==
    \/ IsFailure(doc)
    \/ \E c \in DOMAIN doc.dtype :
          /\ doc.dtype[c] = "object"
          /\ \E i \in 1..doc.nrows : doc.data[c][i].txt = "not a time"

AbsentLoads(v) == {k \in Datasets : v.loads[k] = None}

RECURSIVE Repeat(_, _)
Repeat(x, n) == IF n = 0 THEN <<>> ELSE <<x>> \o Repeat(x, n - 1)

(* C8: a load that fails (unreachable URL, malformed CSV, unparsable time   *)
(* cell) shows one error message and returns None; a dashboard run that got *)
(* None for either dataset shows, after the sidebar, one error per failed  *)
(* load and the warning, and nothing else: no header, no cards, no charts, *)
(* no heatmap, no exception, also when the other dataset loaded.           *)
C8_LoadFailure ==
    [][/\ \A u \in Urls :
             fetches[u] = 0 /\ fetches'[u] = 1 /\ DocFails(remote[u]) =>
                cache'[u] = [cached |-> TRUE, value |-> None,
                             elements |-> <<ErrorLoading>>]
       /\ DashboardRun(view') /\ AbsentLoads(view') # {} =>
             /\ view'.out = <<"title: My Private App">> \o Sidebar \o DateWidgets
                              \o Repeat(ErrorLoading, Cardinality(AbsentLoads(view')))
                              \o <<NoDataWarning>>
             /\ view'.cards = <<>>
             /\ view'.trend = NoTrend
             /\ view'.heatmap = NoHeatmap]_vars

\* the energy dataset loaded, the water dataset did not
C8_Witness ==
    /\ DashboardRun(view)
    /\ view.loads.ENERGY # None
    /\ view.loads.WATER = None
    /\ view.out[Len(view.out)] = NoDataWarning

(* C9 as stated: the heatmap is rendered only for a water table with more  *)
(* than 2 numeric (float64 / int64) columns.                               *)
C9_HeatmapNeedsThreeNumeric ==
    view.heatmap.shown => Len(view.heatmap.columns) > 2

AllMetrics == energy_metrics \o ops_metrics \o water_metrics

\* the frame the k-th card is taken from
FrameOfCard(v, k) ==
    IF k <= Len(energy_metrics) + Len(ops_metrics) THEN v.loads.ENERGY ELSE v.loads.WATER

\* the k-th card as the defaults make it
DefaultCard(v, k) ==
    LET series == Column(FrameOfCard(v, k), AllMetrics[k].column)
        latest == R(series.values[Len(series.values)])
        ref == compute_reference(series, DEFAULT_WINDOW)
    IN  [trend_icon |-> get_trend_icon(latest, ref, DEFAULT_TOLERANCE),
         pct_dev |-> pct_deviation(latest, ref), ref |-> ref]

TrendStateOk(ss) ==
    /\ ss["trend_window"] \in WindowChoices
    /\ ss["trend_tolerance"] \in SliderValues
    /\ ~RLess(ss["trend_tolerance"], R(0))
    /\ ~RLess(R(10), ss["trend_tolerance"])

(* C10: the run that finds no trend state sets window "Last 1h" and        *)
(* tolerance 1.0; the run in which "Reset to Defaults" is pressed leaves   *)
(* both fields at these defaults and renders every card with the reference *)
(* and trend of the defaults; whenever the trend state exists the window   *)
(* is one of the four options and the tolerance is a slider value in 0..10.*)
C10_TrendState ==
    [][/\ TrendKeys \subseteq DOMAIN session_state' => TrendStateOk(session_state')
       /\ DOMAIN session_state' \cap TrendKeys \in {{}, TrendKeys}
       /\ view'.trend.used <=> TrendKeys \subseteq DOMAIN session_state'
       /\ view'.trend.used =>
             /\ view'.trend.window_choice = session_state'["trend_window"]
             /\ view'.trend.tolerance_pct = session_state'["trend_tolerance"]
       /\ TrendKeys \cap DOMAIN session_state = {} /\ view'.trend.used =>
             /\ session_state'["trend_window"] = "Last 1h"
             /\ session_state'["trend_tolerance"] = [num |-> 10, den |-> 10]
       /\ view'.trend.used /\ view'.trend.reset =>
             /\ session_state'["trend_window"] = "Last 1h"
             /\ session_state'["trend_tolerance"] = [num |-> 10, den |-> 10]
             /\ \A k \in 1..Len(view'.cards) :
                   LET d == DefaultCard(view', k)
                   IN  /\ view'.cards[k].trend_icon = d.trend_icon
                       /\ view'.cards[k].pct_dev = d.pct_dev
                       /\ view'.cards[k].ref = d.ref]_vars

\* reset was pressed for the run shown, and all fourteen cards are there
C10_Witness ==
    /\ view.trend.used
    /\ view.trend.reset
    /\ Len(view.cards) = Len(AllMetrics)
    /\ session_state["trend_window"] = DEFAULT_WINDOW
    /\ session_state["trend_tolerance"] = DEFAULT_TOLERANCE


\* dates a user may pick instead of the ones in the widgets, in days from
\* today (none is later than today; a start after the end is among them)
DatesTried == {-30, 0}

\* what a run leaves: the page it rendered and the state it ends with
Outcome(r) == [view |-> r.view, ss |-> r.ss, cache |-> r.cache, fetches |-> r.fetches]

\* the outcomes of running the script now with widget values w
RunsWith(w, reset) ==
    {Outcome(r) : r \in Script(session_state, w, reset, cache, fetches, remote,
                               strict_config)}

DateInputs == {"sidebar: date_input Start date", "sidebar: date_input End date"}

Shown(v) == {v.out[i] : i \in 1..Len(v.out)}

(* C11: the two date inputs are rendered exactly in the runs that have the *)
(* Dashboard page selected, and whatever start and end date are picked,    *)
(* a run renders the same page (cards, references, trends, charts, tables, *)
(* heatmap) and leaves the same session state and cache as with the dates  *)
(* that are in the widgets now, with and without the reset button pressed. *)
C11_DateRangeUnused ==
    /\ (view.page = "Dashboard") = ({"start_date", "end_date"} \subseteq DOMAIN widgets)
    /\ (view.page = "Dashboard") = (DateInputs \subseteq Shown(view))
    /\ view.page # "Dashboard" => DateInputs \cap Shown(view) = {}
    /\ view.page = "Dashboard" =>
          \A reset \in BOOLEAN :
             LET now == RunsWith(widgets, reset)
             IN  \A s \in DatesTried, e \in DatesTried :
                    RunsWith([widgets EXCEPT !["start_date"] = s, !["end_date"] = e],
                             reset) = now

\* a dashboard with all cards and the heatmap, rendered with a range other
\* than the default one
C11_Witness ==
    /\ view.page = "Dashboard"
    /\ widgets["start_date"] = -30
    /\ widgets["end_date"] = -30
    /\ Len(view.cards) = Len(AllMetrics)
    /\ view.heatmap.shown


Authenticated(ss) == "authenticated" \in DOMAIN ss /\ ss["authenticated"]

\* entries that are not the password, some of them close to it
WrongEntries ==
    {"", "letmein", "aquaponicsassociation@2025", "AquaponicsAssociation@2025 ",
     " AquaponicsAssociation@2025", "AquaponicsAssociation@202",
     "AquaponicsAssociation@20255"}

\* the state a step arrives in, as the outcome of a run
Arrived ==
    [view |-> view', ss |-> session_state', cache |-> cache', fetches |-> fetches']

(* C12: the session starts with the flag 'authenticated' false.  A run     *)
(* that ends with the flag false shows the gate only (its title and the    *)
(* password input, plus the error message exactly when the entry is not    *)
(* empty), renders no page and has fetched nothing; no entry other than    *)
(* "AquaponicsAssociation@2025" sets the flag, the step that sets it is a  *)
(* run with exactly that entry, and a set flag stays set: the runs after   *)
(* it are past the gate.                                                   *)
C12_PasswordGate ==
    /\ ~Authenticated(session_state)
    /\ [][/\ ~Authenticated(session_state') =>
                /\ view'.page = "gate"
                /\ view'.loads = NotLoaded
                /\ view'.cards = <<>>
                /\ \A u \in Urls : fetches'[u] = 0 /\ cache'[u] = NoEntry
                /\ widgets'["password"] # "AquaponicsAssociation@2025"
                /\ view'.out = IF widgets'["password"] = "" THEN Gate
                               ELSE Gate \o <<IncorrectPassword>>
          /\ Authenticated(session_state) =>
                /\ Authenticated(session_state')
                /\ view'.page # "gate"
                /\ Shown(view') \cap Shown([out |-> Gate \o <<IncorrectPassword>>]) = {}
          /\ ~Authenticated(session_state) =>
                \A p \in WrongEntries :
                   \A o \in RunsWith([widgets EXCEPT !["password"] = p], FALSE) :
                      ~Authenticated(o.ss) /\ o.view.page = "gate"
          /\ ~Authenticated(session_state) /\ Authenticated(session_state') =>
                Arrived \in RunsWith([widgets EXCEPT
                                        !["password"] = "AquaponicsAssociation@2025"],
                                     FALSE)]_vars

\* the password was entered and the dashboard is there, data fetched
C12_Witness ==
    /\ Authenticated(session_state)
    /\ view.page = "Dashboard"
    /\ \A u \in Urls : fetches[u] = 1
    /\ Len(view.cards) = Len(AllMetrics)


\* the rows a reference is taken over when the series is not time-indexed
TrailingFrom(w, len) ==
    IF w = "Global Average" \/ WindowRows(w) >= len THEN 1 ELSE len - WindowRows(w) + 1

\* the frame load_data returned keeps the row labels of the file as its
\* index; where it has a time column (the first of the four names), the
\* rows ascend in it
PlainFrame(df) ==
    /\ ~df.datetime_index
    /\ {df.index[i] : i \in 1..NRows(df)} = 0..(NRows(df) - 1)
    /\ FirstTimeColumn(df) # None =>
          \A i \in 1..(NRows(df) - 1) :
             df.data[FirstTimeColumn(df).col][i].ts <= df.data[FirstTimeColumn(df).col][i + 1].ts

(* C13: in every dashboard run that gets to the cards, both tables are as  *)
(* load_data returned them: sorted by their time column where they have    *)
(* one, indexed by row labels and not by time; and the reference of every  *)
(* card is the mean of the trailing 12 / 72 / 288 rows of its column for   *)
(* "Last 1h" / "Last 6h" / "Last 24h" (of all rows when there are fewer,   *)
(* and for "Global Average"), whatever the timestamps are and however far  *)
(* apart, with and without a timestamp column.                             *)
C13_PlainColumns ==
    view.trend.used =>
        /\ \A d \in Datasets :
              /\ view.loads[d] = cache[DATA_SOURCES[d]].value
              /\ PlainFrame(view.loads[d])
        /\ \A k \in 1..Len(view.cards) :
              LET values == FrameOfCard(view, k).data[AllMetrics[k].column]
              IN  /\ view.cards[k].title = AllMetrics[k].title
                  /\ view.cards[k].latest = R(values[Len(values)])
                  /\ IsMeanFrom(view.cards[k].ref, values,
                                TrailingFrom(view.trend.window_choice, Len(values)))

\* "Last 1h" over an energy table of more than 12 hourly rows: the last
\* hour of timestamps holds one row, the reference is over 12 rows and is
\* not the latest value
C13_Witness ==
    /\ view.trend.used
    /\ view.trend.window_choice = "Last 1h"
    /\ Len(view.cards) = Len(AllMetrics)
    /\ LET df == view.loads.ENERGY
           n == NRows(df)
       IN  /\ n > 12
           /\ "timestamp" \in ColumnSet(df)
           /\ df.data["timestamp"][n].ts - df.data["timestamp"][n - 1].ts = 60
           /\ ~REq(view.cards[1].ref, view.cards[1].latest)
           /\ ~IsMeanFrom(view.cards[1].ref, df.data["solar"], 1)

=============================================================================
